---- MODULE Spec2Model ----
(***************************************************************************)
(* Bounded streaming body reader of body-parser.                           *)
(*                                                                         *)
(* One request is read by read() (src/lib/read.ts), which selects the      *)
(* content stream (contentstream), hands it to the raw-body accumulator    *)
(* (getRawBody/readStream, src/unnamed/part_000) and reports to next().    *)
(* The request stream and the zlib transform are the environment: they     *)
(* emit data, end, error, aborted and close events.                        *)
(*                                                                         *)
(* read.ts requires the package raw-body; src/unnamed/part_000 is the copy *)
(* of it this repository carries, with the same statements, and is the     *)
(* accumulator modelled here.  Its locals complete, sync, received, buffer *)
(* and decoder are declared const and assigned later; they are modelled as *)
(* the variables the compiled script has (tsc emits var for them).         *)
(*                                                                         *)
(* An action is one synchronous run of JavaScript: the call of read(), one *)
(* event of a stream with the listeners it invokes, one deferred callback. *)
(* The environment follows the stream contract of Node: data and end are   *)
(* emitted only in flowing mode, no data follows end, and close is the     *)
(* last event of the request.  A callback deferred with process.nextTick   *)
(* runs before any further stream event, except the data a request piped   *)
(* into a transform already holds: pipe scheduled that flow first.  What a *)
(* zlib transform emits depends on the content written to it, which the    *)
(* bytes of the model do not carry: it emits any chunks, up to MaxInflated *)
(* bytes, once something was written, and ends or fails.                   *)
(*                                                                         *)
(* Spec is one read on one request.  SpecParse is bytes.parse              *)
(* (src/unnamed/part_001) applied to one argument.                         *)
(* SpecJson is one request handed to the parser json() returns             *)
(* (src/lib/json.ts): the limit option goes through json() and getRawBody, *)
(* and jsonParser skips the request or calls read().                       *)
(***************************************************************************)
EXTENDS Integers, Sequences, FiniteSets, TLC

\* ------------------------------------------------------------------ bounds
\* total number of bytes the request stream delivers
MaxBytes == 3
\* largest configured byte limit
MaxLimit == 2
\* largest declared content-length
MaxLength == 2
\* most digits of the integer part of a size string
MaxDigits == 2
\* most digits of the fraction part of a size string
MaxFrac == 1
\* total number of bytes a zlib transform emits
MaxInflated == 3

\* ---------------------------------------------------------------- constants
\* null / undefined of a numeric option (limit, length)
NULL == 0 - 1

\* bytes of a body: an ASCII letter, the lead byte and the continuation byte
\* of one two-byte UTF-8 sequence
Bytes == {"61", "c3", "a9"}

RECURSIVE SeqsOfLen(_)
SeqsOfLen(n) ==
  IF n = 0 THEN {<<>>}
  ELSE {Append(s, b) : s \in SeqsOfLen(n - 1), b \in Bytes}

\* the chunks a data event can carry: 1..n bytes
ChunksUpTo(n) == UNION {SeqsOfLen(k) : k \in 1..n}

Limits == {NULL} \cup (0..MaxLimit)
Lengths == {NULL} \cup (0..MaxLength)
ContentEncodings == {"identity", "gzip", "deflate", "br"}
\* contentstream treats deflate as it treats gzip (another zlib transform),
\* and inflate: false as inflate: true when the encoding is identity: these
\* requests are read under one limit and one content-length
sameAsAnother(ce, inf) == ce = "deflate" \/ (ce = "identity" /\ ~inf)
\* the limits of a read of a request with content-encoding ce
DeclaredLimits(ce, inf) ==
  IF sameAsAnother(ce, inf) THEN {MaxLimit} ELSE Limits
\* the content-length headers of a request with content-encoding ce: of a
\* compressed body, none or the largest
DeclaredLengths(ce, inf) ==
  IF sameAsAnother(ce, inf) THEN {MaxLength}
  ELSE IF ce = "gzip" THEN {NULL, MaxLength} ELSE Lengths
Charsets == {"null", "utf-8", "utf-9"}

\* iconv.encodingExists / iconv.getDecoder: the registry of decoders
encodingExists(cs) == cs = "utf-8"

RECURSIVE Flatten(_)
\* Buffer.concat(buffer)
Flatten(chunks) ==
  IF chunks = <<>> THEN <<>> ELSE Head(chunks) \o Flatten(Tail(chunks))

RECURSIVE SumLen(_)
SumLen(chunks) ==
  IF chunks = <<>> THEN 0 ELSE Len(Head(chunks)) + SumLen(Tail(chunks))

\* --------------------------------------------------------- charset decoder
\* decoder.write(chunk): incremental UTF-8 decoding. st is the decoder state,
\* "ready" or "lead" (a lead byte is held back); the result is <<st', text>>.
RECURSIVE decoderWrite(_, _)
decoderWrite(st, chunk) ==
  IF chunk = <<>> THEN <<st, <<>>>>
  ELSE
    LET b == Head(chunk)
        out == IF st = "lead"
                 THEN (IF b = "a9" THEN <<"E9">>
                       ELSE IF b = "61" THEN <<"FFFD", "a">>
                       ELSE <<"FFFD">>)
                 ELSE (IF b = "61" THEN <<"a">>
                       ELSE IF b = "a9" THEN <<"FFFD">>
                       ELSE <<>>)
        nst == IF b = "c3" THEN "lead" ELSE "ready"
        rest == decoderWrite(nst, Tail(chunk))
    IN <<rest[1], out \o rest[2]>>

\* decoder.end(): the final flush
decoderEnd(st) == IF st = "lead" THEN <<"FFFD">> ELSE <<>>

RECURSIVE iconvDecode(_)
\* iconv.decode(buf, "utf-8"): decoding of a whole buffer at once
iconvDecode(bs) ==
  IF bs = <<>> THEN <<>>
  ELSE IF bs[1] = "61" THEN <<"a">> \o iconvDecode(Tail(bs))
  ELSE IF bs[1] = "c3" /\ Len(bs) >= 2 /\ bs[2] = "a9"
    THEN <<"E9">> \o iconvDecode(Tail(Tail(bs)))
  ELSE <<"FFFD">> \o iconvDecode(Tail(bs))

VARIABLES
  \* the request and the options of read()
  limit,            \* opts.limit, already a byte count or NULL
  contentLength,    \* req.headers["content-length"], NULL when absent
  contentEncoding,  \* req.headers["content-encoding"] || "identity", lower case
  inflate,          \* opts.inflate
  encoding,         \* opts.encoding on entry: the requested charset
  verify,           \* opts.verify is configured
  \* read()
  called,           \* read() was called (req._body)
  nextCalls,        \* number of invocations of next
  nextArg,          \* argument of the last invocation of next
  nextInRead,       \* next was invoked before read() returned
  body,             \* req.body
  collab,           \* the calls of verify and parse made so far, in order
  finished,         \* onFinished listener: <<>> or <<_error>>
  \* json()
  optsLimit,        \* the limit option json() was given
  \* bytes.parse()
  val,              \* the argument of bytes.parse
  returned,         \* what bytes.parse returned
  \* readStream()
  started,          \* readStream was entered
  length,           \* expected length
  complete, sync, received, buffer, decoder,
  listeners,        \* events of the stream the accumulator listens to
  tick,             \* process.nextTick(invokeCallback): <<>> or <<args>>
  cbCalls,          \* number of invocations of callback
  cbArg,            \* arguments of the last invocation of callback
  \* the streams
  flowing,          \* the content stream is in flowing mode
  piped,            \* req.pipe(stream) was called
  ended,            \* req emitted end
  closed,           \* req emitted close
  aborted,          \* an aborted event reached the accumulator's listener
  errored,          \* an error event reached the accumulator's listener
  zEnded,           \* the transform's input has ended
  zState,           \* the transform: "open", or it emitted "end" or "error"
  consumed,         \* bytes read off the request
  emitted           \* chunks the content stream emitted to the accumulator

optVars == <<limit, contentLength, contentEncoding, inflate, encoding, verify,
             optsLimit, val, returned>>
readVars == <<called, nextCalls, nextArg, nextInRead, body, collab, finished>>
rsVars == <<started, length, complete, sync, received, buffer, decoder,
            listeners, tick, cbCalls, cbArg>>
streamVars == <<flowing, piped, ended, closed, aborted, errored, zEnded, zState,
               consumed, emitted>>
vars == <<optVars, readVars, rsVars, streamVars>>

NoArg == [type |-> "none"]
None == <<>>
Some(x) == <<x>>

\* ------------------------------------------------------------------ errors
\* createHttpError(413, ..., {expected, length, limit, type}) of the fast path
entityTooLargeExpected(len) ==
  [type |-> "entity.too.large", status |-> 413, expected |-> len,
   length |-> len, limit |-> limit]

\* createHttpError(413, ..., {limit, received, type}) of onData
entityTooLargeReceived(n) ==
  [type |-> "entity.too.large", status |-> 413, limit |-> limit, received |-> n]

\* createHttpError(500, ..., {type: "stream.encoding.set"})
streamEncodingSet == [type |-> "stream.encoding.set", status |-> 500]

\* getDecoder: createHttpError(415, ..., {encoding, type: "encoding.unsupported"})
decoderUnsupported(cs) ==
  [type |-> "encoding.unsupported", status |-> 415, encoding |-> cs]

\* createHttpError(400, "request aborted", {...})
requestAborted ==
  [type |-> "request.aborted", status |-> 400, code |-> "ECONNABORTED",
   expected |-> length, length |-> length, received |-> received]

\* createHttpError(400, "request size did not match content length", {...})
requestSizeInvalid ==
  [type |-> "request.size.invalid", status |-> 400, expected |-> length,
   length |-> length, received |-> received]

\* the error object of an error event of the stream: it carries no status
streamError == [type |-> "stream.error"]

\* an error object that carries a status of its own
streamErrorWithStatus == [type |-> "stream.error", status |-> 503]

\* the error objects an error event may carry
StreamErrors == {streamError, streamErrorWithStatus}

\* contentstream: createError(415, ..., {encoding, type: "encoding.unsupported"})
contentEncodingUnsupported(token) ==
  [type |-> "encoding.unsupported", status |-> 415, encoding |-> token]

\* read: createError(415, ..., {charset, type: "charset.unsupported"})
charsetUnsupported(cs) ==
  [type |-> "charset.unsupported", status |-> 415, charset |-> cs]

\* createError(400, error): an error that has a status keeps it
createError400(err) ==
  IF "status" \in DOMAIN err THEN err
  ELSE [f \in DOMAIN err \cup {"status"} |->
          IF f = "status" THEN 400 ELSE err[f]]

\* what verify and parse may throw: an error without and with a type of its own
ThrownErrors ==
  {[message |-> "thrown"], [message |-> "thrown", type |-> "custom.failure"]}

\* the ways a call of verify or parse ends
CallOutcomes ==
  {[threw |-> FALSE]} \cup {[threw |-> TRUE, err |-> e] : e \in ThrownErrors}

\* err.type || dflt
typeOr(err, dflt) == IF "type" \in DOMAIN err THEN err.type ELSE dflt

\* createError(403, err, {body, type: err.type || "entity.verify.failed"})
verifyFailed(err, payload) ==
  [type |-> typeOr(err, "entity.verify.failed"), status |-> 403,
   body |-> payload]

\* createError(400, err, {body: str, type: err.type || "entity.parse.failed"})
parseFailed(err, str) ==
  [type |-> typeOr(err, "entity.parse.failed"), status |-> 400, body |-> str]

\* done(null, string): the arguments of a successful read
success(payload) == [type |-> "success", body |-> payload]

isError(args) == args.type # "success"

\* ------------------------------------------------------------- read(): next
\* next(err) / next(): one invocation of the caller's completion
next(arg) ==
  /\ nextCalls' = nextCalls + 1
  /\ nextArg' = arg

\* the callback of read() that deserializes before it verifies
readCallbackParseFirst(args, fl) ==
  IF isError(args)
    THEN LET _error == IF args.type = "encoding.unsupported"
                         THEN charsetUnsupported(encoding)
                         ELSE createError400(args)
         IN /\ flowing' = TRUE
            /\ finished' = Some(_error)
            /\ UNCHANGED <<nextCalls, nextArg, body, collab>>
    ELSE \E vr \in (IF verify THEN CallOutcomes ELSE {[threw |-> FALSE]}),
            pr \in CallOutcomes :
         LET str == IF ~args.body.text /\ encoding # "null"
                      THEN [text |-> TRUE, val |-> iconvDecode(args.body.val)]
                      ELSE args.body
             verified == IF verify
                           THEN <<[fn |-> "verify", arg |-> args.body, out |-> vr]>>
                         ELSE <<>>
             parsed == <<[fn |-> "parse", arg |-> str, out |-> pr]>>
         IN /\ flowing' = fl
            /\ finished' = finished
            /\ IF pr.threw
                 THEN /\ collab' = collab \o parsed
                      /\ next(parseFailed(pr.err, str)) /\ body' = body
               ELSE IF vr.threw
                 THEN /\ collab' = collab \o parsed \o verified
                      /\ next(verifyFailed(vr.err, args.body))
                      /\ body' = Some(str)
               ELSE /\ collab' = collab \o parsed \o verified
                    /\ body' = Some(str) /\ next([type |-> "ok"])

\* the callback read() hands to getBody; fl is the flowing mode of the
\* stream when the callback is entered
readCallback(args, fl) ==
  IF isError(args)
    THEN LET _error == IF args.type = "encoding.unsupported"
                         THEN charsetUnsupported(encoding)
                         ELSE createError400(args)
         IN /\ flowing' = TRUE                   \* stream.resume()
            /\ finished' = Some(_error)          \* onFinished(req, onfinished)
            /\ UNCHANGED <<nextCalls, nextArg, body, collab>>
    ELSE \E vr \in (IF verify THEN CallOutcomes ELSE {[threw |-> FALSE]}),
            pr \in CallOutcomes :
         LET str == IF ~args.body.text /\ encoding # "null"
                      THEN [text |-> TRUE, val |-> iconvDecode(args.body.val)]
                      ELSE args.body
             verified == IF verify
                           THEN <<[fn |-> "verify", arg |-> args.body, out |-> vr]>>
                         ELSE <<>>
             parsed == <<[fn |-> "parse", arg |-> str, out |-> pr]>>
         IN /\ flowing' = fl
            /\ finished' = finished
            /\ IF vr.threw
                 THEN /\ collab' = collab \o verified
                      /\ next(verifyFailed(vr.err, args.body)) /\ body' = body
               ELSE IF pr.threw
                 THEN /\ collab' = collab \o verified \o parsed
                      /\ next(parseFailed(pr.err, str)) /\ body' = body
               ELSE /\ collab' = collab \o verified \o parsed
                    /\ body' = Some(str) /\ next([type |-> "ok"])

\* onfinished of read(): next(createError(400, _error))
onfinished(_error) == next(createError400(_error))

\* ------------------------------------------------------------- readStream
\* halt(stream): unpipe and pause; the flowing mode it leaves
halt(fl) == FALSE

cleanup ==
  /\ buffer' = None
  /\ listeners' = {}

invokeCallback(args) ==
  /\ cleanup
  /\ cbCalls' = cbCalls + 1
  /\ cbArg' = args
  /\ readCallback(args, IF isError(args) THEN halt(flowing) ELSE flowing)

\* variables done() and what it calls may assign
doneVars == <<listeners, buffer, cbCalls, cbArg, flowing, finished,
              nextCalls, nextArg, body, collab>>
\* the same without req.body. During the synchronous section done() only
\* defers the callback; req.body is then left to the function that called
\* read(), which may have assigned it in the same run (jsonParser).
syncVars == <<listeners, buffer, cbCalls, cbArg, flowing, finished,
              nextCalls, nextArg, collab>>

\* done() that neither marks the read complete nor detaches the listeners
doneNoLatch(args) ==
  /\ complete' = complete
  /\ IF sync
       THEN tick' = Some(args) /\ UNCHANGED syncVars
       ELSE /\ tick' = tick
            /\ UNCHANGED <<listeners, buffer>>
            /\ cbCalls' = cbCalls + 1
            /\ cbArg' = args
            /\ readCallback(args, IF isError(args) THEN halt(flowing) ELSE flowing)

\* done() that invokes the callback at once, also during the setup
doneImmediate(args) ==
  /\ complete' = TRUE
  /\ tick' = tick
  /\ invokeCallback(args)

done(args) ==
  /\ complete' = TRUE
  /\ IF sync
       THEN tick' = Some(args) /\ UNCHANGED syncVars
       ELSE tick' = tick /\ invokeCallback(args)

\* onAborted() that ignores the abort once every declared byte has arrived
onAbortedUnlessFull ==
  IF complete \/ (length # NULL /\ received = length)
    THEN UNCHANGED <<complete, tick, doneVars>>
    ELSE done(requestAborted)

onAborted ==
  IF complete
    THEN UNCHANGED <<complete, tick, doneVars>>
    ELSE done(requestAborted)

\* onData() that rejects a chunk as soon as the count reaches the limit
onDataAtLimit(chunk) ==
  IF complete
    THEN UNCHANGED <<received, decoder, complete, tick, doneVars>>
    ELSE /\ received' = received + Len(chunk)
         /\ IF limit # NULL /\ received + Len(chunk) >= limit
              THEN /\ done(entityTooLargeReceived(received + Len(chunk)))
                   /\ decoder' = decoder
            ELSE IF decoder # "null"
              THEN LET w == decoderWrite(decoder, chunk)
                   IN /\ decoder' = w[1]
                      /\ buffer' = Some(buffer[1] \o w[2])
                      /\ UNCHANGED <<complete, tick, listeners, cbCalls, cbArg,
                                     flowing, finished, nextCalls, nextArg, body, collab>>
            ELSE /\ buffer' = Some(Append(buffer[1], chunk))
                 /\ decoder' = decoder
                 /\ UNCHANGED <<complete, tick, listeners, cbCalls, cbArg,
                                flowing, finished, nextCalls, nextArg, body, collab>>

\* onData() that decodes every chunk on its own
onDataPerChunk(chunk) ==
  IF complete
    THEN UNCHANGED <<received, decoder, complete, tick, doneVars>>
    ELSE /\ received' = received + Len(chunk)
         /\ decoder' = decoder
         /\ IF limit # NULL /\ received + Len(chunk) > limit
              THEN done(entityTooLargeReceived(received + Len(chunk)))
            ELSE /\ buffer' = IF decoder # "null"
                                THEN Some(buffer[1] \o iconvDecode(chunk))
                                ELSE Some(Append(buffer[1], chunk))
                 /\ UNCHANGED <<complete, tick, listeners, cbCalls, cbArg,
                                flowing, finished, nextCalls, nextArg, body, collab>>

\* onData() that counts the chunks, not their bytes
onDataCountsChunks(chunk) ==
  IF complete
    THEN UNCHANGED <<received, decoder, complete, tick, doneVars>>
    ELSE /\ received' = received + 1
         /\ IF limit # NULL /\ received + 1 > limit
              THEN /\ done(entityTooLargeReceived(received + 1))
                   /\ decoder' = decoder
            ELSE IF decoder # "null"
              THEN LET w == decoderWrite(decoder, chunk)
                   IN /\ decoder' = w[1]
                      /\ buffer' = Some(buffer[1] \o w[2])
                      /\ UNCHANGED <<complete, tick, listeners, cbCalls, cbArg,
                                     flowing, finished, nextCalls, nextArg, body, collab>>
            ELSE /\ buffer' = Some(Append(buffer[1], chunk))
                 /\ decoder' = decoder
                 /\ UNCHANGED <<complete, tick, listeners, cbCalls, cbArg,
                                flowing, finished, nextCalls, nextArg, body, collab>>

\* onData(chunk): the data listener
onData(chunk) ==
  IF complete
    THEN UNCHANGED <<received, decoder, complete, tick, doneVars>>
    ELSE /\ received' = received + Len(chunk)
         /\ IF limit # NULL /\ received + Len(chunk) > limit
              THEN /\ done(entityTooLargeReceived(received + Len(chunk)))
                   /\ decoder' = decoder
            ELSE IF decoder # "null"
              THEN LET w == decoderWrite(decoder, chunk)
                   IN /\ decoder' = w[1]
                      /\ buffer' = Some(buffer[1] \o w[2])
                      /\ UNCHANGED <<complete, tick, listeners, cbCalls, cbArg,
                                     flowing, finished, nextCalls, nextArg, body, collab>>
            ELSE /\ buffer' = Some(Append(buffer[1], chunk))
                 /\ decoder' = decoder
                 /\ UNCHANGED <<complete, tick, listeners, cbCalls, cbArg,
                                flowing, finished, nextCalls, nextArg, body, collab>>

\* onEnd() without the comparison of the count with the expected length
onEndNoLengthCheck(err) ==
  IF complete
    THEN UNCHANGED <<decoder, complete, tick, doneVars>>
  ELSE IF err # None
    THEN done(err[1]) /\ decoder' = decoder
  ELSE LET string == IF decoder # "null"
                       THEN [text |-> TRUE, val |-> buffer[1] \o decoderEnd(decoder)]
                       ELSE [text |-> FALSE, val |-> Flatten(buffer[1])]
       IN /\ done(success(string))
          \* decoder.end() leaves the decoder with no byte held back
          /\ decoder' = IF decoder # "null" THEN "ready" ELSE decoder

\* onEnd() that takes an error for the end once every declared byte arrived
onEndErrorUnlessFull(err) ==
  IF complete
    THEN UNCHANGED <<decoder, complete, tick, doneVars>>
  ELSE IF err # None /\ ~(length # NULL /\ received = length)
    THEN done(err[1]) /\ decoder' = decoder
  ELSE IF length # NULL /\ received # length
    THEN done(requestSizeInvalid) /\ decoder' = decoder
  ELSE LET string == IF decoder # "null"
                       THEN [text |-> TRUE, val |-> buffer[1] \o decoderEnd(decoder)]
                       ELSE [text |-> FALSE, val |-> Flatten(buffer[1])]
       IN /\ done(success(string))
          \* decoder.end() leaves the decoder with no byte held back
          /\ decoder' = IF decoder # "null" THEN "ready" ELSE decoder

\* onEnd(err): err is <<>> for the end event, <<error>> for the error event
onEnd(err) ==
  IF complete
    THEN UNCHANGED <<decoder, complete, tick, doneVars>>
  ELSE IF err # None
    THEN done(err[1]) /\ decoder' = decoder
  ELSE IF length # NULL /\ received # length
    THEN done(requestSizeInvalid) /\ decoder' = decoder
  ELSE LET string == IF decoder # "null"
                       THEN [text |-> TRUE, val |-> buffer[1] \o decoderEnd(decoder)]
                       ELSE [text |-> FALSE, val |-> Flatten(buffer[1])]
       IN /\ done(success(string))
          \* decoder.end() leaves the decoder with no byte held back
          /\ decoder' = IF decoder # "null" THEN "ready" ELSE decoder

\* the synchronous section of readStream(stream, encoding, length, limit,
\* callback); encSet: the stream already has an encoding set
readStream(enc, len, encSet) ==
  /\ started' = TRUE
  /\ length' = len
  /\ IF limit # NULL /\ len # NULL /\ len > limit
       THEN /\ done(entityTooLargeExpected(len))
            /\ UNCHANGED <<sync, received, decoder>>
     ELSE IF encSet
       THEN /\ done(streamEncodingSet)
            /\ UNCHANGED <<sync, received, decoder>>
     ELSE IF enc # "null" /\ ~encodingExists(enc)
       THEN /\ done(decoderUnsupported(enc))
            /\ received' = 0
            /\ UNCHANGED <<sync, decoder>>
     ELSE /\ received' = 0
          /\ decoder' = IF enc # "null" THEN "ready" ELSE "null"
          /\ buffer' = Some(<<>>)
          /\ listeners' = {"aborted", "close", "data", "end", "error"}
          /\ flowing' = TRUE          \* a data listener starts the flow
          /\ sync' = FALSE
          /\ UNCHANGED <<complete, tick, cbCalls, cbArg, finished,
                         nextCalls, nextArg, collab>>

\* getRawBody: the expected length readStream is given for opts.length
getRawBody(optsLength) == IF optsLength # NULL THEN optsLength ELSE NULL

\* ------------------------------------------------------------------ read()
\* contentstream() that inflates whatever opts.inflate says
contentstreamAlwaysInflate ==
  IF contentEncoding \in {"deflate", "gzip"}
    THEN [throw |-> FALSE, pipe |-> TRUE, length |-> NULL]
  ELSE IF contentEncoding = "identity"
    THEN [throw |-> FALSE, pipe |-> FALSE, length |-> contentLength]
  ELSE [throw |-> TRUE, err |-> contentEncodingUnsupported(contentEncoding)]

\* contentstream() that keeps the declared length for a compressed body
contentstreamKeepLength ==
  IF inflate = FALSE /\ contentEncoding # "identity"
    THEN [throw |-> TRUE, err |-> contentEncodingUnsupported(contentEncoding)]
  ELSE IF contentEncoding \in {"deflate", "gzip"}
    THEN [throw |-> FALSE, pipe |-> TRUE, length |-> contentLength]
  ELSE IF contentEncoding = "identity"
    THEN [throw |-> FALSE, pipe |-> FALSE, length |-> contentLength]
  ELSE [throw |-> TRUE, err |-> contentEncodingUnsupported(contentEncoding)]

\* contentstream(req, debug, inflate): it throws, or returns the stream
\* (the request itself, or a zlib transform the request is piped into)
contentstream ==
  IF inflate = FALSE /\ contentEncoding # "identity"
    THEN [throw |-> TRUE, err |-> contentEncodingUnsupported(contentEncoding)]
  ELSE IF contentEncoding \in {"deflate", "gzip"}
    THEN [throw |-> FALSE, pipe |-> TRUE, length |-> NULL]
  ELSE IF contentEncoding = "identity"
    THEN [throw |-> FALSE, pipe |-> FALSE, length |-> contentLength]
  ELSE [throw |-> TRUE, err |-> contentEncodingUnsupported(contentEncoding)]

\* read(req, res, next, parse, debug, options) up to its return. It does not
\* assign req.body: body' is left to the action that calls it.
read ==
  /\ called' = TRUE
  /\ LET cs == contentstream
     IN IF cs.throw
          THEN /\ next(cs.err)
               /\ nextInRead' = TRUE
               /\ UNCHANGED <<collab, finished, rsVars, streamVars>>
          ELSE LET optsEncoding == IF verify THEN "null" ELSE encoding
               IN /\ piped' = cs.pipe
                  /\ UNCHANGED <<ended, closed, aborted, errored, zEnded, zState, consumed,
                                 emitted>>
                  /\ IF optsEncoding = "null" /\ encoding # "null"
                        /\ ~encodingExists(encoding)
                       THEN /\ next(charsetUnsupported(encoding))
                            /\ nextInRead' = TRUE
                            /\ UNCHANGED <<collab, finished, rsVars, flowing>>
                       ELSE /\ \E encSet \in (IF cs.pipe THEN {FALSE} ELSE BOOLEAN) :
                                 readStream(optsEncoding, getRawBody(cs.length), encSet)
                            /\ nextInRead' = FALSE
  /\ UNCHANGED optVars

\* a call of read() on a request no parser has read
Read ==
  /\ ~called
  /\ read
  /\ body' = body

\* ---------------------------------------------------------------- json()
\* next(): the success invocation, without an argument
nextOk == [type |-> "ok"]

\* the {} of req.body = req.body || {}
emptyObject == [type |-> "object"]

\* typeis.hasBody(req): the request has a transfer-encoding header (te) or
\* a content-length
hasBody(te) == te \/ contentLength # NULL

\* charset.substr(0, 4) === "utf-", on the charsets of the model
startsWithUtf(cs) == cs \in {"utf-8", "utf-9"}

\* jsonParser(req, res, next), the function json() returns, up to its
\* return. It is called once for a request: before it, next was not called
\* and readStream was not entered. te: the request has a transfer-encoding
\* header; typeMatches: shouldParse(req).
JsonParser ==
  /\ nextCalls = 0 /\ ~started
  /\ \E te \in BOOLEAN, typeMatches \in BOOLEAN :
       IF called
         THEN /\ next(nextOk)
              /\ UNCHANGED <<optVars, called, nextInRead, body, collab, finished,
                             rsVars, streamVars>>
       ELSE IF ~hasBody(te) \/ ~typeMatches
         THEN /\ body' = IF body = None THEN Some(emptyObject) ELSE body
              /\ next(nextOk)
              /\ UNCHANGED <<optVars, called, nextInRead, collab, finished,
                             rsVars, streamVars>>
       ELSE IF ~startsWithUtf(encoding)
         THEN /\ body' = IF body = None THEN Some(emptyObject) ELSE body
              /\ next(charsetUnsupported(encoding))
              /\ UNCHANGED <<optVars, called, nextInRead, collab, finished,
                             rsVars, streamVars>>
       ELSE /\ body' = IF body = None THEN Some(emptyObject) ELSE body
            /\ read

\* process.nextTick(invokeCallback): the deferred callback of a failure
\* found in the synchronous section
Tick ==
  /\ tick # None
  /\ invokeCallback(tick[1])
  /\ tick' = None
  /\ UNCHANGED <<optVars, called, nextInRead, started, length, complete, sync,
                 received, decoder, piped, aborted, errored, ended, closed, zEnded, zState,
                 consumed, emitted>>

\* onFinished(req, onfinished): the listener is run by onFinished, which is
\* imported from ./utils; when it does so is not in this source, so it is
\* any moment after the registration
Finished ==
  /\ finished # None
  /\ tick = None
  /\ onfinished(finished[1])
  /\ finished' = None
  /\ UNCHANGED <<optVars, called, nextInRead, body, collab, rsVars, streamVars>>

\* ---------------------------------------------------------- the environment
\* the accumulator's variables no stream event assigns
rsFixed == <<started, length, sync>>
\* the variables the listeners of the accumulator may assign
listenerVars == <<received, decoder, complete, tick, doneVars>>

\* the request is read: req.pipe(stream) keeps it flowing (the bodies here
\* stay below the high-water mark of the transform, so pipe never pauses it
\* for back-pressure), also after the transform has emitted end. When the
\* transform emits error, the error handler of pipe unpipes the request and
\* leaves it paused: what arrives later is not delivered and the request
\* does not end. A request that is itself the content stream is read in
\* flowing mode.
reqFlowing == IF piped THEN zState # "error" ELSE flowing

\* stream.emit("data", chunk) on the content stream
emitData(chunk) ==
  IF "data" \in listeners
    THEN onData(chunk) /\ emitted' = Append(emitted, chunk)
    ELSE UNCHANGED <<listenerVars, emitted>>

\* stream.emit("end")
emitEnd ==
  IF "end" \in listeners
    THEN onEnd(None)
    ELSE UNCHANGED <<decoder, complete, tick, doneVars>>

\* stream.emit("error", err)
emitError ==
  IF "error" \in listeners
    THEN /\ \E err \in StreamErrors : onEnd(Some(err))
         /\ errored' = TRUE
    ELSE UNCHANGED <<decoder, complete, tick, doneVars, errored>>

\* stream.emit("aborted")
emitAborted ==
  IF "aborted" \in listeners
    THEN onAborted /\ aborted' = TRUE
    ELSE UNCHANGED <<complete, tick, doneVars, aborted>>

\* stream.emit("close")
emitClose ==
  IF "close" \in listeners
    THEN cleanup /\ UNCHANGED <<complete, tick, cbCalls, cbArg, flowing,
                                finished, nextCalls, nextArg, body, collab>>
    ELSE UNCHANGED <<complete, tick, doneVars>>

\* the request delivers a chunk. pipe() schedules the start of the flow
\* before getRawBody defers its callback, so a piped request delivers the
\* data it already holds before the deferred callback runs.
ReqData ==
  /\ called /\ (tick = None \/ piped)
  /\ reqFlowing /\ ~ended /\ ~closed
  /\ IF piped
       \* stream.write(c): the transform takes the n bytes of the chunk
       THEN \E n \in 1..(MaxBytes - consumed) :
              /\ consumed' = consumed + n
              /\ UNCHANGED <<listenerVars, emitted>>
       ELSE \E c \in ChunksUpTo(MaxBytes - consumed) :
              /\ consumed' = consumed + Len(c)
              /\ emitData(c)
  /\ UNCHANGED <<optVars, called, nextInRead, rsFixed, piped, aborted, errored, ended, closed,
                 zEnded, zState>>

\* the request ends
ReqEnd ==
  /\ called /\ tick = None
  /\ reqFlowing /\ ~ended /\ ~closed
  /\ ended' = TRUE
  /\ IF piped
       THEN zEnded' = TRUE /\ UNCHANGED <<decoder, complete, tick, doneVars>>
       ELSE emitEnd /\ zEnded' = zEnded
  /\ UNCHANGED <<optVars, called, nextInRead, rsFixed, received,
                 piped, aborted, errored, closed, zState, consumed, emitted>>

\* the request emits an error
ReqError ==
  /\ called /\ tick = None /\ ~closed
  /\ IF piped
       THEN UNCHANGED <<decoder, complete, tick, doneVars, errored>>
       ELSE emitError
  /\ UNCHANGED <<optVars, called, nextInRead, rsFixed, received,
                 piped, aborted, ended, closed, zEnded, zState, consumed, emitted>>

\* the client aborts the request
ReqAborted ==
  /\ called /\ tick = None /\ ~closed
  /\ IF piped THEN UNCHANGED <<complete, tick, doneVars, aborted>> ELSE emitAborted
  /\ UNCHANGED <<optVars, called, nextInRead, rsFixed, received, decoder,
                 piped, errored, ended, closed, zEnded, zState, consumed, emitted>>

\* the request is closed: its last event
ReqClose ==
  /\ called /\ tick = None /\ ~closed
  /\ closed' = TRUE
  /\ IF piped THEN UNCHANGED <<complete, tick, doneVars>> ELSE emitClose
  /\ UNCHANGED <<optVars, called, nextInRead, rsFixed, received, decoder,
                 piped, aborted, errored, ended, zEnded, zState, consumed, emitted>>

\* the transform emits a chunk of decompressed data. What it emits depends on
\* the content of what was written, which the bytes of the model do not
\* carry: the chunk is any chunk, of a size unrelated to the number of bytes
\* written, once something was written.
ZData ==
  /\ piped /\ tick = None
  /\ flowing /\ zState = "open" /\ consumed > 0
  /\ \E c \in ChunksUpTo(MaxInflated - SumLen(emitted)) : emitData(c)
  /\ UNCHANGED <<optVars, called, nextInRead, rsFixed, piped, aborted, errored, ended, closed,
                 zEnded, zState, consumed>>

\* the transform emits end: the compressed stream written to it is
\* complete, which its content decides and can be before the request ends,
\* or its input has ended
ZEnd ==
  /\ piped /\ tick = None
  /\ flowing /\ zState = "open" /\ (consumed > 0 \/ zEnded)
  /\ zState' = "end"
  /\ emitEnd
  /\ UNCHANGED <<optVars, called, nextInRead, rsFixed, received,
                 piped, aborted, errored, ended, closed, zEnded, consumed, emitted>>

\* the transform fails on its input (malformed or truncated data)
ZError ==
  /\ piped /\ tick = None
  /\ zState = "open" /\ (consumed > 0 \/ zEnded)
  /\ zState' = "error"
  /\ emitError
  /\ UNCHANGED <<optVars, called, nextInRead, rsFixed, received,
                 piped, aborted, ended, closed, zEnded, consumed, emitted>>

\* ------------------------------------------------------------ bytes.parse
\* A string is a sequence of one-character strings. A number is kept as a
\* sign and the magnitude hi * Limb + lo: the products with map.gb and map.tb
\* exceed the 32-bit integers of the model checker. The products are
\* computed exactly; for the magnitudes the inputs below reach (under 512,
\* at most three fraction digits) Math.floor of the double product of
\* JavaScript is the same integer.
Limb == 2^20

String(s) == [t |-> "string", s |-> s]
Number(neg, hi, lo) ==
  [t |-> "number", neg |-> neg /\ (hi # 0 \/ lo # 0), hi |-> hi, lo |-> lo]
numberOf(n) == Number(n < 0, 0, IF n < 0 THEN 0 - n ELSE n)
NaN == [t |-> "NaN"]
nullValue == [t |-> "null"]
undefinedValue == [t |-> "undefined"]
objectValue == [t |-> "object"]

\* typeof val
typeof(v) == IF v.t \in {"number", "NaN"} THEN "number"
             ELSE IF v.t = "null" THEN "object"
             ELSE v.t

isNaN(v) == v.t = "NaN"

\* const map: the multiplier of each unit as a power of two (1 << n)
map ==
  (<<"b">> :> 0) @@ (<<"k", "b">> :> 10) @@ (<<"m", "b">> :> 20) @@
  (<<"g", "b">> :> 30) @@ (<<"t", "b">> :> 40)

digitValue ==
  ("0" :> 0) @@ ("1" :> 1) @@ ("2" :> 2) @@ ("3" :> 3) @@ ("4" :> 4) @@
  ("5" :> 5) @@ ("6" :> 6) @@ ("7" :> 7) @@ ("8" :> 8) @@ ("9" :> 9)

\* \d
isDigit(c) == c \in DOMAIN digitValue

\* the number of digits of s from position i on
RECURSIVE digitRun(_, _)
digitRun(s, i) ==
  IF i <= Len(s) /\ isDigit(s[i]) THEN 1 + digitRun(s, i + 1) ELSE 0

\* the number of spaces of s from position i on
RECURSIVE spaceRun(_, _)
spaceRun(s, i) ==
  IF i <= Len(s) /\ s[i] = " " THEN 1 + spaceRun(s, i + 1) ELSE 0

\* the value of the n decimal digits of s from position i on
RECURSIVE decimalValue(_, _, _)
decimalValue(s, i, n) ==
  IF n = 0 THEN 0
  ELSE decimalValue(s, i, n - 1) * 10 + digitValue[s[i + n - 1]]

lowerChar(c) ==
  CASE c = "B" -> "b" [] c = "K" -> "k" [] c = "M" -> "m"
    [] c = "G" -> "g" [] c = "T" -> "t" [] c = "A" -> "a" [] OTHER -> c

\* String.prototype.toLowerCase
toLowerCase(s) == [i \in DOMAIN s |-> lowerChar(s[i])]

\* parseRegExp.exec(s) for /^((-|\+)?(\d+(?:\.\d+)?)) *(kb|mb|gb|tb)$/i:
\* <<>> when s does not match, else the groups 1 to 4
parseRegExpExec(s) ==
  LET n == Len(s)
      sg == IF n >= 1 /\ s[1] \in {"-", "+"} THEN 1 ELSE 0
      d1 == digitRun(s, sg + 1)
      d2 == IF sg + d1 + 1 <= n /\ s[sg + d1 + 1] = "."
              THEN digitRun(s, sg + d1 + 2) ELSE 0
      endNum == sg + d1 + (IF d2 > 0 THEN 1 + d2 ELSE 0)
      sp == spaceRun(s, endNum + 1)
      unit == SubSeq(s, endNum + sp + 1, n)
  IN IF /\ d1 >= 1
        /\ toLowerCase(unit) \in {<<"k", "b">>, <<"m", "b">>, <<"g", "b">>,
                                  <<"t", "b">>}
       THEN <<SubSeq(s, 1, endNum), SubSeq(s, 1, sg),
              SubSeq(s, sg + 1, endNum), unit>>
       ELSE <<>>

\* a parsed decimal: NaN, or sign, integer part and fd fraction digits
NaNFloat == [nan |-> TRUE]
Float(neg, int, frac, fd) ==
  [nan |-> FALSE, neg |-> neg, int |-> int, frac |-> frac, fd |-> fd]

\* parseInt(s, 10): leading white space, a sign, then the leading digits
parseInt(s) ==
  LET ws == spaceRun(s, 1)
      sg == IF ws + 1 <= Len(s) /\ s[ws + 1] \in {"-", "+"} THEN 1 ELSE 0
      d == digitRun(s, ws + sg + 1)
  IN IF d = 0 THEN NaNFloat
     ELSE Float(sg = 1 /\ s[ws + 1] = "-", decimalValue(s, ws + sg + 1, d), 0, 0)

\* parseFloat(s) of a signed decimal literal
parseFloat(s) ==
  LET sg == IF Len(s) >= 1 /\ s[1] \in {"-", "+"} THEN 1 ELSE 0
      d1 == digitRun(s, sg + 1)
      d2 == IF sg + d1 + 1 <= Len(s) /\ s[sg + d1 + 1] = "."
              THEN digitRun(s, sg + d1 + 2) ELSE 0
  IN IF d1 = 0 THEN NaNFloat
     ELSE Float(sg = 1 /\ s[1] = "-", decimalValue(s, sg + 1, d1),
                decimalValue(s, sg + d1 + 2, d2), d2)

\* Math.floor(2^e * f)
mathFloorTimes(e, f) ==
  IF f.nan THEN NaN
  ELSE LET p10 == 10 ^ f.fd
           small == e <= 20
           m == IF small THEN 2 ^ e ELSE 2 ^ (e - 20)
           \* (int + frac / p10) * m = a + r / p10
           a == f.int * m + (f.frac * m) \div p10
           r == (f.frac * m) % p10
           hi == IF small THEN a \div Limb ELSE a
           lo == IF small THEN a % Limb ELSE (r * Limb) \div p10
           exact == IF small THEN r = 0 ELSE (r * Limb) % p10 = 0
           up == f.neg /\ ~exact        \* floor of a negative fraction
       IN IF ~up THEN Number(f.neg, hi, lo)
          ELSE IF lo + 1 = Limb THEN Number(TRUE, hi + 1, 0)
          ELSE Number(TRUE, hi, lo + 1)

\* bytes.parse(val)
parse(v) ==
  IF typeof(v) = "number" /\ ~isNaN(v) THEN v
  ELSE IF typeof(v) # "string" THEN nullValue
  ELSE LET results == parseRegExpExec(v.s)
           floatValue == IF results = <<>> THEN parseInt(v.s)
                         ELSE parseFloat(results[1])
           unit == IF results = <<>> THEN <<"b">> ELSE toLowerCase(results[4])
       IN mathFloorTimes(map[unit], floatValue)

\* the arguments parse is applied to
DigitChars == {"0", "1", "2"}
DigitStrings(n) == UNION {[1..k -> DigitChars] : k \in 0..n}
Suffixes ==
  {<<>>, <<"b">>, <<"B">>, <<"k", "b">>, <<"K", "B">>, <<"k", "B">>,
   <<"m", "b">>, <<"g", "b">>, <<"t", "b">>, <<"T", "B">>, <<"k">>,
   <<"a", "b", "c">>, <<"b", "b">>}
StringInputs ==
  {String(ws \o sg \o int \o fr \o sp \o u) :
     ws \in {<<>>, <<" ">>}, sg \in {<<>>, <<"-">>, <<"+">>},
     int \in DigitStrings(MaxDigits),
     fr \in {<<>>} \cup {<<".">> \o d : d \in DigitStrings(MaxFrac)},
     sp \in {<<>>, <<" ">>}, u \in Suffixes}
NumberInputs ==
  {numberOf(n) : n \in (0 - 1)..MaxLimit} \cup {Number(FALSE, 1, 0)}
ParseInputs ==
  StringInputs \cup NumberInputs \cup {NaN, nullValue, undefinedValue, objectValue}

\* ------------------------------------------------ json(): the limit option
\* the truth value of v in opts.limit || "100kb"
truthy(v) ==
  CASE v.t = "string" -> v.s # <<>>
    [] v.t = "number" -> v.hi # 0 \/ v.lo # 0
    [] v.t = "object" -> TRUE
    [] OTHER -> FALSE

\* json() that falls back to "100kb" whenever the option does not parse
jsonLimitOrDefault(o) ==
  IF typeof(o) # "number"
    THEN LET l == parse(IF truthy(o) THEN o
                        ELSE String(<<"1", "0", "0", "k", "b">>))
         IN IF l.t = "number" THEN l
            ELSE parse(String(<<"1", "0", "0", "k", "b">>))
    ELSE o

\* const limit = typeof opts.limit !== "number"
\*   ? bytes.parse(opts.limit || "100kb") : opts.limit
jsonLimit(o) ==
  IF typeof(o) # "number"
    THEN parse(IF truthy(o) THEN o ELSE String(<<"1", "0", "0", "k", "b">>))
    ELSE o

\* getRawBody: const limit = bytes.parse(opts.limit), as the integer the
\* checks of readStream compare with, or NULL for null
limitOf(v) ==
  IF v.t = "number"
    THEN (IF v.neg THEN 0 - 1 ELSE 1) * (v.hi * Limb + v.lo)
    ELSE NULL

\* the value of returned before parse has returned
NotReturned == [t |-> "pending"]

\* one call of bytes.parse
Parse ==
  /\ returned = NotReturned
  /\ returned' = parse(val)
  /\ UNCHANGED <<limit, contentLength, contentEncoding, inflate, encoding,
                 verify, optsLimit, val, readVars, rsVars, streamVars>>

InitRequest ==
  /\ nextCalls = 0 /\ nextArg = NoArg /\ nextInRead = FALSE
  /\ body = None /\ collab = <<>> /\ finished = None
  /\ started = FALSE /\ length = NULL /\ complete = FALSE /\ sync = TRUE
  /\ received = 0 /\ buffer = None /\ decoder = "null" /\ listeners = {}
  /\ tick = None /\ cbCalls = 0 /\ cbArg = NoArg
  /\ flowing = FALSE /\ piped = FALSE /\ ended = FALSE /\ closed = FALSE
  /\ aborted = FALSE /\ errored = FALSE
  /\ zEnded = FALSE /\ zState = "open" /\ consumed = 0
  /\ emitted = <<>>

InitRead == called = FALSE /\ InitRequest

Init ==
  /\ contentEncoding \in ContentEncodings
  /\ inflate \in BOOLEAN
  /\ limit \in DeclaredLimits(contentEncoding, inflate)
  /\ contentLength \in DeclaredLengths(contentEncoding, inflate)
  /\ encoding \in Charsets
  /\ verify \in BOOLEAN
  \* json() was given a number, or NaN for a read without a limit, and
  \* passes it on; getRawBody: limit = bytes.parse(opts.limit)
  /\ optsLimit = (IF limit = NULL THEN NaN ELSE numberOf(limit))
  /\ val = jsonLimit(optsLimit)
  /\ returned = parse(val)
  /\ limit = limitOf(returned)
  /\ InitRead

Next ==
  \/ Read
  \/ Tick
  \/ Finished
  \/ ReqData
  \/ ReqEnd
  \/ ReqError
  \/ ReqAborted
  \/ ReqClose
  \/ ZData
  \/ ZEnd
  \/ ZError

Spec == Init /\ [][Next]_vars

\* bytes.parse on its own: one argument, one call
InitParse ==
  /\ val \in ParseInputs
  /\ returned = NotReturned
  /\ optsLimit = val
  /\ limit = NULL /\ contentLength = NULL /\ contentEncoding = "identity"
  /\ inflate = TRUE /\ encoding = "null" /\ verify = FALSE
  /\ InitRead

NextParse == Parse

SpecParse == InitParse /\ [][NextParse]_vars

\* requests handed to the parser json() returns: the limit option is drawn
\* from JsonLimits, it goes through json() and then through getRawBody
JsonLimits ==
  {NaN, String(<<"a", "b", "c">>), String(<<>>), objectValue, undefinedValue,
   String(<<"1", "b">>)} \cup {numberOf(n) : n \in 0..MaxLimit}

\* the charsets getCharset(req) || "utf-8" can give
JsonCharsets == {"utf-8", "utf-9", "latin1"}

InitJson ==
  /\ optsLimit \in JsonLimits
  /\ val = jsonLimit(optsLimit)
  /\ returned = parse(val)
  /\ limit = limitOf(returned)
  /\ contentEncoding \in {"identity", "gzip"}
  /\ inflate = TRUE
  /\ contentLength \in DeclaredLengths(contentEncoding, inflate)
  /\ encoding \in JsonCharsets /\ verify = FALSE
  /\ called \in BOOLEAN
  /\ InitRequest

NextJson ==
  \/ JsonParser
  \/ Tick
  \/ Finished
  \/ ReqData
  \/ ReqEnd
  \/ ReqError
  \/ ReqAborted
  \/ ReqClose
  \/ ZData
  \/ ZEnd
  \/ ZError

SpecJson == InitJson /\ [][NextJson]_vars

\* ================================================================== claims

\* the accumulator's source stream is over: the request was closed, or the
\* transform emitted its end or error
sourceOver == IF piped THEN zState # "open" ELSE closed

\* C1: every read started by readStream invokes the callback exactly once,
\* whatever the source stream emits: never twice, and not zero times once
\* the source stream is over and no deferred callback is pending.
C1_ExactlyOneOutcome ==
  /\ cbCalls <= 1
  /\ (started /\ tick = None /\ sourceOver) => cbCalls = 1

\* C2: once the outcome is delivered no later event invokes the callback
\* again or changes the delivered arguments, and once the read is complete
\* no chunk is counted or added to the buffer.
C2_TerminalIsFinal ==
  [][ /\ (cbCalls >= 1 => (cbCalls' = cbCalls /\ cbArg' = cbArg))
      /\ (complete => /\ complete'
                      /\ received' = received
                      /\ decoder' = decoder
                      /\ (buffer' = buffer \/ buffer' = None)) ]_vars

\* an event reached the stream after the outcome of an identity read was
\* delivered: the request delivered a chunk the accumulator did not see
C2_Witness ==
  /\ cbCalls = 1 /\ ~piped /\ closed
  /\ consumed > SumLen(emitted)

\* a data event is delivered to the accumulator in this step
chunkDelivered == Len(emitted') = Len(emitted) + 1

\* C3: with a limit, the read fails with entity.too.large exactly at the
\* first delivered chunk that makes the byte count exceed the limit, with
\* that limit and that count; a chunk that makes the count equal to the
\* limit does not fail; no chunk after the failing one is processed.
C3_LimitAtFirstExcess ==
  /\ [](limit # NULL =>
          /\ ("data" \in listeners =>
                received = SumLen(emitted) /\ received <= limit)
          /\ (cbArg.type = "entity.too.large" /\ "received" \in DOMAIN cbArg =>
                /\ cbArg = [type |-> "entity.too.large", status |-> 413,
                            limit |-> limit, received |-> SumLen(emitted)]
                /\ received = SumLen(emitted)
                /\ SumLen(SubSeq(emitted, 1, Len(emitted) - 1)) <= limit))
  /\ [][(limit # NULL /\ chunkDelivered) =>
          IF SumLen(emitted') > limit
            THEN /\ cbCalls' = cbCalls + 1
                 /\ cbArg' = [type |-> "entity.too.large", status |-> 413,
                              limit |-> limit, received |-> SumLen(emitted')]
            ELSE /\ ~complete' /\ cbCalls' = 0
                 /\ "data" \in listeners']_vars

\* the scenario "8 then 7 against a limit of 10" at the model's scale: the
\* first chunk fills the limit without failing, the second exceeds it, and
\* a third chunk arrives afterwards without being counted
C3_Witness ==
  /\ limit = 1 /\ ~piped
  /\ cbArg.type = "entity.too.large" /\ "received" \in DOMAIN cbArg
  /\ cbArg.received = 2
  /\ Len(emitted) = 2 /\ Len(emitted[1]) = 1
  /\ consumed = 3 /\ received = 2

\* a length over the limit, both present, on entry to readStream
fastPath == started /\ limit # NULL /\ length # NULL /\ length > limit

\* C4: when the declared length exceeds the limit the read fails with
\* entity.too.large carrying that length and limit, and no data of the
\* stream is consumed: the accumulator attaches no listener and counts no
\* chunk, and until the failure has reached next the stream is not made to
\* flow and no byte is read off the request.
C4_FastPathReadsNothing ==
  fastPath =>
    /\ listeners = {} /\ received = 0 /\ emitted = <<>> /\ complete
    /\ (cbCalls = 1 =>
          cbArg = [type |-> "entity.too.large", status |-> 413,
                   expected |-> contentLength, length |-> contentLength,
                   limit |-> limit])
    /\ (nextCalls = 0 => consumed = 0 /\ ~flowing)

\* the end event reaches the accumulator in this step: an identity read
\* that is still listening sees the request end
endDelivered == ~piped /\ "end" \in listeners /\ ~ended /\ ended'

\* C5: under identity transport with a declared length, an end of stream
\* that finds a byte count other than the declared length fails with
\* request.size.invalid reporting the declared length and the count; no
\* read succeeds with a payload of another size than the declared length.
C5_SizeMismatch ==
  /\ [](~piped /\ contentLength # NULL /\ cbArg.type = "success" =>
          SumLen(emitted) = contentLength)
  /\ [][(endDelivered /\ contentLength # NULL
           /\ SumLen(emitted) # contentLength) =>
          /\ cbCalls' = cbCalls + 1
          /\ cbArg' = [type |-> "request.size.invalid", status |-> 400,
                       expected |-> contentLength, length |-> contentLength,
                       received |-> SumLen(emitted)]]_vars

\* the stream ended short of its declared length
C5_Witness ==
  /\ ~piped /\ contentLength = 2
  /\ cbArg.type = "request.size.invalid" /\ cbArg.received = 1

\* C6: an identity read that is not complete and whose request is not
\* closed listens for the abort; an abort invokes the callback at once with
\* request.aborted, carrying the expected length and the bytes received so
\* far, whatever was accumulated; it never delivers a success.
C6_AbortFails ==
  /\ []((started /\ ~complete /\ ~closed /\ ~piped) => "aborted" \in listeners)
  /\ [][(~aborted /\ aborted' /\ ~complete) =>
         /\ cbCalls' = cbCalls + 1
         /\ complete'
         /\ cbArg' = [type |-> "request.aborted", status |-> 400,
                      code |-> "ECONNABORTED", expected |-> contentLength,
                      length |-> contentLength, received |-> SumLen(emitted)]
         /\ nextCalls' = nextCalls /\ body' = None]_vars

\* the abort came when every declared byte had already been received
C6_Witness ==
  /\ cbArg.type = "request.aborted"
  /\ cbArg.expected = 2 /\ cbArg.received = 2 /\ Len(emitted) = 2

\* C7: the payload of a successful read is the concatenation, in receipt
\* order, of all chunks the stream delivered: the raw bytes, or with a
\* charset the text those bytes decode to, final flush included.
C7_PayloadIsConcatenation ==
  cbArg.type = "success" =>
    cbArg.body = IF decoder # "null"
                   THEN [text |-> TRUE, val |-> iconvDecode(Flatten(emitted))]
                   ELSE [text |-> FALSE, val |-> Flatten(emitted)]

\* a two-byte character split over two chunks, followed by a lead byte that
\* only the final flush reports
C7_Witness ==
  /\ cbArg.type = "success" /\ cbArg.body.text
  /\ emitted = << <<"c3">>, <<"a9", "c3">> >>
  /\ cbArg.body.val = <<"E9", "FFFD">>

\* C8: read() delivers its result through one asynchronous completion: next
\* is invoked at most once, and never before read() has returned.
C8_NextOnceAfterReturn ==
  /\ nextCalls <= 1
  /\ ~nextInRead

\* the content-encoding the selection rejects
unsupportedEncoding ==
  \/ inflate = FALSE /\ contentEncoding # "identity"
  \/ contentEncoding \notin {"identity", "gzip", "deflate"}

\* C9: the selection fails with encoding.unsupported, reporting the token,
\* when inflate is disabled and the token is not identity and when the token
\* is none of identity, gzip, deflate; the accumulator is then never started
\* and that failure is the only outcome. For identity the request itself is
\* read, with the declared length as the expected length.
C9_TransportSelection ==
  called =>
    /\ unsupportedEncoding =>
         /\ nextCalls = 1
         /\ nextArg = [type |-> "encoding.unsupported", status |-> 415,
                       encoding |-> contentEncoding]
         /\ ~started /\ ~piped /\ listeners = {} /\ tick = None
         /\ cbCalls = 0 /\ finished = None /\ consumed = 0 /\ body = None
    /\ ~unsupportedEncoding =>
         /\ nextArg.type # "encoding.unsupported"
         /\ piped = (contentEncoding # "identity")
    /\ (contentEncoding = "identity" /\ started) => length = contentLength

\* "br" with inflate allowed was rejected
C9_Witness ==
  /\ called /\ contentEncoding = "br" /\ inflate
  /\ nextCalls = 1 /\ nextArg.encoding = "br"

\* C10: for gzip and deflate the accumulator has no expected length, so the
\* declared content-length causes neither the fast-path entity.too.large nor
\* request.size.invalid; it counts the bytes the transform emits, and fails
\* with entity.too.large when that count exceeds the limit.
C10_DecompressedIsMeasured ==
  (piped /\ started) =>
    /\ length = NULL
    /\ cbArg.type # "request.size.invalid"
    /\ "expected" \notin DOMAIN cbArg
    /\ ~complete => received = SumLen(emitted)
    /\ (limit # NULL /\ SumLen(emitted) > limit) =>
         cbArg = [type |-> "entity.too.large", status |-> 413,
                  limit |-> limit, received |-> SumLen(emitted)]
    /\ SumLen(emitted) > 0 => consumed > 0

\* the compressed bytes and the declared length are within the limit, the
\* decompressed bytes are not
C10_Witness ==
  /\ piped /\ limit = 2 /\ contentLength = 2 /\ consumed = 1
  /\ cbArg.type = "entity.too.large" /\ cbArg.received = 3

\* the requested charset is not in iconv-lite's registry and the transport
\* encoding is one the selection accepts
unsupportedCharset ==
  /\ encoding # "null" /\ ~encodingExists(encoding)
  /\ ~unsupportedEncoding

\* C11: when the requested charset is not supported, for every transport
\* encoding and with or without a verify callback, the read fails with
\* charset.unsupported before any byte of the request is read: no
\* decompression pipe is started, and until the failure has reached next no
\* data chunk is consumed and the stream is not made to flow.
C11_CharsetFailsFast ==
  (called /\ unsupportedCharset) =>
    /\ ~piped
    /\ nextCalls = 0 => (consumed = 0 /\ ~flowing)
    /\ nextCalls = 1 => nextArg = [type |-> "charset.unsupported",
                                   status |-> 415, charset |-> encoding]

\* the string read() hands to the deserializer for the payload of a
\* successful accumulation
parseInput(payload) ==
  IF ~payload.text /\ encoding # "null"
    THEN [text |-> TRUE, val |-> iconvDecode(payload.val)]
    ELSE payload

\* C12: after a successful accumulation with verify configured, verify is
\* the first call and receives the raw payload; when it throws, next
\* receives a 403 failure of type entity.verify.failed, or of the thrown
\* error's own type, carrying the payload, the deserializer is not called
\* and req.body stays unassigned; when the deserializer throws, next
\* receives a 400 failure of type entity.parse.failed carrying the string it
\* was given. Neither is called when the accumulation failed.
C12_VerifyThenParse ==
  /\ cbArg.type # "success" => (collab = <<>> /\ body = None)
  /\ cbArg.type = "success" =>
       LET payload == cbArg.body
           str == parseInput(payload)
           first == collab[1]
           last == collab[Len(collab)]
       IN /\ nextCalls = 1
          /\ Len(collab) \in 1..2
          /\ verify => /\ first.fn = "verify" /\ first.arg = payload
                       /\ ~payload.text
          /\ ~verify => (Len(collab) = 1 /\ first.fn = "parse")
          /\ (verify /\ first.out.threw) =>
               /\ nextArg = [type |-> typeOr(first.out.err, "entity.verify.failed"),
                             status |-> 403, body |-> payload]
               /\ Len(collab) = 1
               /\ body = None
          /\ (verify /\ ~first.out.threw) => Len(collab) = 2
          /\ last.fn = "parse" =>
               /\ last.arg = str
               /\ last.out.threw =>
                    /\ nextArg = [type |-> typeOr(last.out.err, "entity.parse.failed"),
                                  status |-> 400, body |-> str]
                    /\ body = None
               /\ ~last.out.threw => (nextArg = [type |-> "ok"] /\ body = Some(str))

\* verify threw an error without a type on a payload of two bytes
C12_Witness ==
  /\ verify /\ cbArg.type = "success" /\ Len(cbArg.body.val) = 2
  /\ nextCalls = 1 /\ nextArg.type = "entity.verify.failed"
  /\ collab = <<[fn |-> "verify", arg |-> cbArg.body,
                 out |-> [threw |-> TRUE, err |-> [message |-> "thrown"]]]>>

\* C13: every call of read() produces exactly one invocation of next: next
\* is never invoked twice, and once the request has closed, no deferred
\* callback or onFinished listener is pending and the transform, if any, is
\* done, next has been invoked.
C13_OutcomeNotDropped ==
  /\ nextCalls <= 1
  /\ (called /\ closed /\ tick = None /\ finished = None /\ (piped => zState # "open"))
       => nextCalls = 1

\* the form of a size string: an optional sign, a decimal magnitude and a
\* unit of b, kb, mb, gb, tb in any letter case (spaces before the unit are
\* let through, as the parser's pattern lets them through): <<>> when s is
\* not of the form, else the signed magnitude and the unit
sizeForm(s) ==
  LET n == Len(s)
      sg == IF n >= 1 /\ s[1] \in {"-", "+"} THEN 1 ELSE 0
      d1 == digitRun(s, sg + 1)
      d2 == IF sg + d1 + 1 <= n /\ s[sg + d1 + 1] = "."
              THEN digitRun(s, sg + d1 + 2) ELSE 0
      endNum == sg + d1 + (IF d2 > 0 THEN 1 + d2 ELSE 0)
      unit == toLowerCase(SubSeq(s, endNum + spaceRun(s, endNum + 1) + 1, n))
  IN IF d1 >= 1 /\ unit \in DOMAIN map
       THEN <<SubSeq(s, 1, endNum), unit>>
       ELSE <<>>

\* C14: for a string made of an optional sign, a decimal magnitude and a
\* unit of b, kb, mb, gb, tb in any letter case, parse returns the floor of
\* the signed magnitude times the unit's multiplier (1, 2^10, 2^20, 2^30,
\* 2^40); a string not of that form that starts with an integer gives that
\* integer; a number is returned unchanged.
C14_ParseValue ==
  returned # NotReturned =>
    /\ (typeof(val) = "number" /\ ~isNaN(val)) => returned = val
    /\ val.t = "string" =>
         LET m == sizeForm(val.s)
         IN /\ m # <<>> =>
                 returned = mathFloorTimes(map[m[2]], parseFloat(m[1]))
            /\ (m = <<>> /\ ~parseInt(val.s).nan) =>
                 returned = mathFloorTimes(0, parseInt(val.s))

\* an argument parse cannot turn into a byte count: a string that is not a
\* size string and has no leading integer, or a value that is neither a
\* string nor a number
unparseable(v) ==
  \/ v.t = "string" /\ sizeForm(v.s) = <<>> /\ parseInt(v.s).nan
  \/ typeof(v) \notin {"string", "number"}

\* C15: for every unparseable argument (a string with no leading integer,
\* the empty string, a value that is neither a string nor a number) parse
\* returns null, never NaN or another value.
C15_UnparseableIsNull ==
  (returned # NotReturned /\ unparseable(val)) => returned = nullValue

\* the failures readStream finds before it has attached a listener
SetupFailures == {"entity.too.large", "stream.encoding.set", "encoding.unsupported"}

\* C16: the callback is never invoked before readStream has returned: the
\* step that runs read() leaves the callback uninvoked, and a failure it
\* found during the setup (length over limit, stream encoding set, decoder
\* lookup failed) is pending for a later tick, which then delivers it.
C16_SetupFailureDeferred ==
  /\ [][(~called /\ called') =>
          /\ cbCalls' = 0
          /\ complete' => (tick' # None /\ tick'[1].type \in SetupFailures)]_vars
  /\ []((tick # None) => (started /\ complete /\ sync /\ cbCalls = 0))
  /\ [][(tick # None /\ tick' = None) =>
          (cbCalls' = 1 /\ cbArg' = tick[1] /\ listeners' = {})]_vars

\* the stream had an encoding set: the failure was kept for the next tick
\* and has now reached the callback
C16_Witness ==
  /\ started /\ sync /\ tick = None
  /\ cbCalls = 1 /\ cbArg = [type |-> "stream.encoding.set", status |-> 500]

\* C17: after a read has failed with entity.too.large the source stream is
\* halted and stays halted until the failure has reached next: the
\* accumulator's listeners are detached, the stream is not flowing, and no
\* byte beyond the chunks the accumulator was given is read off the request.
C17_StaysHalted ==
  (cbArg.type = "entity.too.large" /\ nextCalls = 0) =>
    /\ listeners = {}
    /\ ~flowing
    /\ ~piped => consumed = SumLen(emitted)

\* C18: while a read is not terminal it listens for the error event of its
\* source stream; an error event then ends the read with that error object,
\* whatever the number of bytes received, the declared length included: the
\* callback gets the error, all listeners are detached, nothing is assigned
\* to req.body, and next later receives the error with status 400, or with
\* its own status when it has one.
C18_StreamErrorFails ==
  /\ []((started /\ ~complete /\ (piped \/ ~closed)) => "error" \in listeners)
  /\ [][(~errored /\ errored') =>
          /\ cbCalls' = cbCalls + 1
          /\ cbArg' \in {[type |-> "stream.error"],
                         [type |-> "stream.error", status |-> 503]}
          /\ complete' /\ listeners' = {}
          /\ nextCalls' = nextCalls
          /\ finished' =
               <<[type |-> "stream.error",
                  status |-> IF "status" \in DOMAIN cbArg' THEN 503 ELSE 400]>>]_vars
  /\ [](errored =>
          /\ cbCalls = 1 /\ cbArg.type = "stream.error" /\ body = None
          /\ nextCalls = 1 =>
               nextArg = [type |-> "stream.error",
                          status |-> IF "status" \in DOMAIN cbArg THEN 503 ELSE 400])

\* the error arrived when the count was equal to the declared length of two
\* bytes, and next received it as a 400 failure
C18_Witness ==
  /\ errored /\ length = 2 /\ received = 2
  /\ cbArg = [type |-> "stream.error"]
  /\ nextCalls = 1 /\ nextArg = [type |-> "stream.error", status |-> 400]

\* C20: when a read has succeeded, the count of received bytes is the total
\* length of the chunks the stream emitted, which is the length of a raw
\* payload, is at most the limit when there is one and is the declared
\* length when there is one; while a read is not terminal the count is the
\* total length of the chunks processed so far, which are the chunks in the
\* buffer of a raw read, and is at most the limit.
C20_CountInvariant ==
  /\ cbArg.type = "success" =>
       /\ received = SumLen(emitted)
       /\ ~cbArg.body.text => Len(cbArg.body.val) = received
       /\ limit # NULL => received <= limit
       /\ length # NULL => received = length
  /\ (started /\ ~complete) =>
       /\ received = SumLen(emitted)
       /\ limit # NULL => received <= limit
       /\ (buffer # None /\ decoder = "null") => buffer[1] = emitted

\* two chunks of one byte made a successful read whose count is both the
\* limit and the declared length
C20_Witness ==
  /\ cbArg.type = "success" /\ received = 2
  /\ Len(emitted) = 2
  /\ limit = 2 /\ length = 2

\* a limit option json() hands to bytes.parse, or passes on, that is not
\* turned into a byte count: NaN, or a string with neither the size form nor
\* a leading integer. The empty string is not among them: it is falsy, and
\* opts.limit || "100kb" replaces it by the default before anything is parsed.
unparseableLimit(o) ==
  \/ isNaN(o)
  \/ o.t = "string" /\ o.s # <<>> /\ sizeForm(o.s) = <<>> /\ parseInt(o.s).nan

\* the read has no byte limit and none of its checks has failed
noByteLimit ==
  /\ limit = NULL
  /\ cbArg.type # "entity.too.large"
  /\ tick # None => tick[1].type # "entity.too.large"

\* C22: whenever json() was given a limit that bytes.parse cannot turn into
\* a byte count (an unparseable string such as "abc", or NaN), the read runs
\* with no byte limit: the limit of getRawBody is null, and neither the
\* fast-path length check nor the running-count check ever produces
\* entity.too.large, whatever the announced length and the bytes received.
C22_UnparseableLimitIsNoLimit ==
  unparseableLimit(optsLimit) => noByteLimit

\* json() was given "abc", which it parsed to NaN and getRawBody to null; the
\* request announced two bytes, delivered three and ended; the fast-path
\* check and the count passed, the read failed on the length only
C22_Witness ==
  /\ optsLimit = String(<<"a", "b", "c">>)
  /\ val = NaN /\ returned = nullValue /\ limit = NULL
  /\ contentLength = 2 /\ consumed = 3 /\ received = 3
  /\ cbArg.type = "request.size.invalid"
====
